---- MODULE Spec2Model ----
(***************************************************************************)
(* Model of the PATH scanner of Dev-Janitor                                *)
(* (src/renderer/components/AICli/AICLIView.tsx, lines 316-800):           *)
(* parsePath, isExecutable, scanDirectory, scanAllPathDirectories,         *)
(* identifyInstallMethod, generateUninstallInstructions,                   *)
(* getExtendedToolInfo and findAllInstallations.                           *)
(*                                                                         *)
(* Strings are TLA+ strings; the JavaScript string and path functions the  *)
(* code calls are operators that compute on their characters.              *)
(***************************************************************************)
EXTENDS Naturals, Sequences, FiniteSets, TLC

VARIABLES
    platform,   \* process.platform: "win32", "linux" or "darwin"
    pathEnv,    \* process.env.PATH || process.env.Path || ''
    dirs,       \* the filesystem's directories: directory path -> [state, files]
    stat,       \* the filesystem's entries: file path -> outcome of fs.stat
    op,         \* the exported function being run ("" before the first call)
    pc,         \* the position of the running call
    args,       \* the arguments of the running call
    tasks,      \* the promises dispatched by the running call, in dispatch order
    acc,        \* the accumulators of the running call (local variables)
    ret,        \* the value the last finished call returned
    prev        \* the value the finished call before it returned

vars == <<platform, pathEnv, dirs, stat, op, pc, args, tasks, acc, ret, prev>>

None == "<none>"

(***************************************************************************)
(* JavaScript strings                                                      *)
(***************************************************************************)

\* String.prototype.toLowerCase, one character
LowerChar(c) ==
    CASE c = "A" -> "a" [] c = "B" -> "b" [] c = "C" -> "c" [] c = "D" -> "d"
      [] c = "E" -> "e" [] c = "F" -> "f" [] c = "G" -> "g" [] c = "H" -> "h"
      [] c = "I" -> "i" [] c = "J" -> "j" [] c = "K" -> "k" [] c = "L" -> "l"
      [] c = "M" -> "m" [] c = "N" -> "n" [] c = "O" -> "o" [] c = "P" -> "p"
      [] c = "Q" -> "q" [] c = "R" -> "r" [] c = "S" -> "s" [] c = "T" -> "t"
      [] c = "U" -> "u" [] c = "V" -> "v" [] c = "W" -> "w" [] c = "X" -> "x"
      [] c = "Y" -> "y" [] c = "Z" -> "z" [] OTHER -> c

RECURSIVE toLowerCase(_)
toLowerCase(s) ==
    IF Len(s) = 0 THEN ""
    ELSE LowerChar(SubSeq(s, 1, 1)) \o toLowerCase(SubSeq(s, 2, Len(s)))

\* String.prototype.includes
includes(s, sub) ==
    \E i \in 1..(Len(s) + 1) :
        /\ i + Len(sub) - 1 <= Len(s)
        /\ SubSeq(s, i, i + Len(sub) - 1) = sub

\* String.prototype.startsWith / endsWith
startsWith(s, pre) == Len(pre) <= Len(s) /\ SubSeq(s, 1, Len(pre)) = pre
endsWith(s, suf) ==
    Len(suf) <= Len(s) /\ SubSeq(s, Len(s) - Len(suf) + 1, Len(s)) = suf

\* the truthiness of a string: '' is falsy
Truthy(s) == Len(s) > 0

\* String.prototype.lastIndexOf of a one-character string, 1-based; 0 when absent
LastIndexOf(s, c) ==
    LET hits == {i \in 1..Len(s) : SubSeq(s, i, i) = c}
    IN  IF hits = {} THEN 0 ELSE CHOOSE i \in hits : \A j \in hits : j <= i

\* String.prototype.trim
WhiteSpace == {" ", "\t", "\n", "\r"}

RECURSIVE trimStart(_)
trimStart(s) ==
    IF Len(s) > 0 /\ SubSeq(s, 1, 1) \in WhiteSpace
    THEN trimStart(SubSeq(s, 2, Len(s))) ELSE s

RECURSIVE trimEnd(_)
trimEnd(s) ==
    IF Len(s) > 0 /\ SubSeq(s, Len(s), Len(s)) \in WhiteSpace
    THEN trimEnd(SubSeq(s, 1, Len(s) - 1)) ELSE s

trim(s) == trimEnd(trimStart(s))

\* String.prototype.split on a one-character separator
RECURSIVE split(_, _)
split(s, separator) ==
    LET hits == {i \in 1..Len(s) : SubSeq(s, i, i) = separator}
    IN  IF hits = {} THEN <<s>>
        ELSE LET i == CHOOSE k \in hits : \A j \in hits : k <= j
             IN  <<SubSeq(s, 1, i - 1)>> \o split(SubSeq(s, i + 1, Len(s)), separator)

\* Array.prototype.includes
arrayIncludes(seq, x) == \E i \in 1..Len(seq) : seq[i] = x

(***************************************************************************)
(* The platform                                                            *)
(***************************************************************************)

Platforms == {"win32", "linux", "darwin"}

\* isWindows() of ./commandExecutor
isWindows == platform = "win32"

\* path.sep
sep == IF isWindows THEN "\\" ELSE "/"

\* a separator character of path: '/' and, on Windows, '\'
IsSep(c) == c = "/" \/ (isWindows /\ c = "\\")

\* the 1-based index of the last separator of p, 0 when it has none
LastSepIndex(p) ==
    LET hits == {i \in 1..Len(p) : IsSep(SubSeq(p, i, i))}
    IN  IF hits = {} THEN 0 ELSE CHOOSE i \in hits : \A j \in hits : j <= i

\* the last component of p
LastComponent(p) == SubSeq(p, LastSepIndex(p) + 1, Len(p))

\* path.extname: from the last '.' of the last component, '' when there is
\* none or when the component starts with its only '.'
extname(p) ==
    LET base == LastComponent(p)
        dot  == LastIndexOf(base, ".")
    IN  IF dot <= 1 THEN "" ELSE SubSeq(base, dot, Len(base))

\* path.basename(p, ext): the last component, without ext when it ends in ext
\* (compared case-sensitively)
basename(p, ext) ==
    LET base == LastComponent(p)
    IN  IF Len(ext) > 0 /\ endsWith(base, ext)
        THEN (IF base = ext THEN "" ELSE SubSeq(base, 1, Len(base) - Len(ext)))
        ELSE base

(***************************************************************************)
(* Paths                                                                   *)
(***************************************************************************)

\* the components of p between its separators
RECURSIVE Components(_)
Components(p) ==
    LET hits == {i \in 1..Len(p) : IsSep(SubSeq(p, i, i))}
    IN  IF hits = {} THEN <<p>>
        ELSE LET i == CHOOSE k \in hits : \A j \in hits : k <= j
             IN  <<SubSeq(p, 1, i - 1)>> \o Components(SubSeq(p, i + 1, Len(p)))

\* resolution of '', '.' and '..' components, left to right
RECURSIVE Resolve(_, _, _)
Resolve(comps, stack, absolute) ==
    IF comps = <<>> THEN stack
    ELSE LET c    == Head(comps)
             rest == Tail(comps)
         IN  IF c = "" \/ c = "." THEN Resolve(rest, stack, absolute)
             ELSE IF c = ".."
             THEN (IF stack # <<>> /\ stack[Len(stack)] # ".."
                   THEN Resolve(rest, SubSeq(stack, 1, Len(stack) - 1), absolute)
                   ELSE IF absolute THEN Resolve(rest, stack, absolute)
                   ELSE Resolve(rest, Append(stack, c), absolute))
             ELSE Resolve(rest, Append(stack, c), absolute)

RECURSIVE JoinComponents(_)
JoinComponents(stack) ==
    IF stack = <<>> THEN ""
    ELSE IF Len(stack) = 1 THEN stack[1]
    ELSE stack[1] \o sep \o JoinComponents(Tail(stack))

\* the canonical form of a path: separators unified to path.sep, repeated and
\* trailing separators dropped, '.' and '..' resolved
Canonical(p) ==
    LET absolute == Len(p) > 0 /\ IsSep(SubSeq(p, 1, 1))
        body     == JoinComponents(Resolve(Components(p), <<>>, absolute))
    IN  IF absolute THEN sep \o body
        ELSE IF body = "" THEN "." ELSE body

\* normalizePath(path) of ./commandExecutor; a falsy path is returned as it is
normalizePath(p) == IF Truthy(p) THEN Canonical(p) ELSE p

\* path.join(directory, file)
join(directory, file) == Canonical(directory \o sep \o file)

(***************************************************************************)
(* The filesystem                                                          *)
(***************************************************************************)

S_IXUSR == 64
S_IXGRP == 8
S_IXOTH == 1

\* mode & bit, for a one-bit mask
BitAnd(mode, bit) == ((mode \div bit) % 2) * bit

\* fs.stat(filePath): an entry of the filesystem, or ENOENT when there is none
StatError == [err |-> TRUE, isFile |-> FALSE, mode |-> 0]
fsStat(filePath) == IF filePath \in DOMAIN stat THEN stat[filePath] ELSE StatError

\* fs.access(directory) and fs.readdir(directory)
NoDir == [state |-> "missing", files |-> <<>>]
fsDir(directory) == IF directory \in DOMAIN dirs THEN dirs[directory] ELSE NoDir
accessThrows(directory) == fsDir(directory).state = "missing"
readdirThrows(directory) == fsDir(directory).state # "listable"
readdir(directory) == fsDir(directory).files

(***************************************************************************)
(* getPathSeparator, parsePath (lines 361-380)                             *)
(***************************************************************************)

getPathSeparator == IF isWindows THEN ";" ELSE ":"

NonEmpty(p) == Len(p) > 0

\* .map(p => p.trim()) and .map(normalizePath)
TrimAll(seq) == [i \in 1..Len(seq) |-> trim(seq[i])]
NormalizeAll(seq) == [i \in 1..Len(seq) |-> normalizePath(seq[i])]

parsePath ==
    NormalizeAll(SelectSeq(TrimAll(split(pathEnv, getPathSeparator)), NonEmpty))

(***************************************************************************)
(* isExecutable (lines 401-423)                                            *)
(***************************************************************************)

ExecutableExtensions == {".exe", ".cmd", ".bat", ".com", ".ps1"}

isExecutableNoOtherBit(filePath) ==
    LET stats == fsStat(filePath)
    IN  IF stats.err THEN FALSE
        ELSE IF ~stats.isFile THEN FALSE
        ELSE IF isWindows
        THEN toLowerCase(extname(filePath)) \in ExecutableExtensions
        ELSE \/ BitAnd(stats.mode, S_IXUSR) # 0
             \/ BitAnd(stats.mode, S_IXGRP) # 0

isExecutable(filePath) ==
    LET stats == fsStat(filePath)
    IN  IF stats.err THEN FALSE                      \* catch { return false }
        ELSE IF ~stats.isFile THEN FALSE
        ELSE IF isWindows
        THEN toLowerCase(extname(filePath)) \in ExecutableExtensions
        ELSE \/ BitAnd(stats.mode, S_IXUSR) # 0
             \/ BitAnd(stats.mode, S_IXGRP) # 0
             \/ BitAnd(stats.mode, S_IXOTH) # 0

(***************************************************************************)
(* identifyInstallMethod (lines 513-550)                                   *)
(***************************************************************************)

identifyInstallMethodNpmFirst(toolPath) ==
    IF ~Truthy(toolPath) THEN "manual"
    ELSE LET lowerPath == toLowerCase(toolPath)
         IN  IF includes(lowerPath, "node_modules") \/ includes(lowerPath, "npm")
             THEN "npm"
             ELSE IF \/ includes(lowerPath, "/opt/homebrew")
                     \/ includes(lowerPath, "/usr/local/cellar")
                     \/ includes(lowerPath, "homebrew")
             THEN "homebrew"
             ELSE IF includes(lowerPath, "chocolatey") \/ includes(lowerPath, "choco")
             THEN "chocolatey"
             ELSE IF includes(lowerPath, "/usr/bin") /\ platform = "linux"
             THEN "apt"
             ELSE IF \/ includes(lowerPath, "site-packages")
                     \/ includes(lowerPath, "pip")
                     \/ includes(lowerPath, "python")
             THEN "pip"
             ELSE "manual"

identifyInstallMethod(toolPath) ==
    IF ~Truthy(toolPath) THEN "manual"
    ELSE LET lowerPath == toLowerCase(toolPath)
         IN  IF \/ includes(lowerPath, "/opt/homebrew")
                \/ includes(lowerPath, "/usr/local/cellar")
                \/ includes(lowerPath, "homebrew")
             THEN "homebrew"
             ELSE IF includes(lowerPath, "chocolatey") \/ includes(lowerPath, "choco")
             THEN "chocolatey"
             ELSE IF includes(lowerPath, "/usr/bin") /\ platform = "linux"
             THEN "apt"
             ELSE IF includes(lowerPath, "node_modules") \/ includes(lowerPath, "npm")
             THEN "npm"
             ELSE IF \/ includes(lowerPath, "site-packages")
                     \/ includes(lowerPath, "pip")
                     \/ includes(lowerPath, "python")
             THEN "pip"
             ELSE "manual"

(***************************************************************************)
(* generateUninstallInstructions (lines 561-613)                           *)
(***************************************************************************)

generateUninstallInstructionsRmOnWindows(toolName, installMethod, toolPath) ==
    CASE installMethod = "homebrew" ->
           << "brew uninstall " \o toolName,
              "# Or force uninstall: brew uninstall --force " \o toolName >>
      [] installMethod = "chocolatey" ->
           << "choco uninstall " \o toolName,
              "# Or force uninstall: choco uninstall " \o toolName \o " --force" >>
      [] installMethod = "apt" ->
           << "sudo apt remove " \o toolName,
              "# Or purge (remove config): sudo apt purge " \o toolName >>
      [] installMethod = "npm" ->
           << "npm uninstall -g " \o toolName >>
      [] installMethod = "pip" ->
           << "pip uninstall " \o toolName,
              "# Or: pip3 uninstall " \o toolName >>
      [] OTHER ->
           IF Truthy(toolPath)
           THEN << "# Manual removal required",
                   "sudo rm " \o toolPath,
                   "# Or check if installed via system package manager" >>
           ELSE << "# Unable to determine uninstall method",
                   "# Please check your system's package manager" >>

generateUninstallInstructions(toolName, installMethod, toolPath) ==
    CASE installMethod = "homebrew" ->
           << "brew uninstall " \o toolName,
              "# Or force uninstall: brew uninstall --force " \o toolName >>
      [] installMethod = "chocolatey" ->
           << "choco uninstall " \o toolName,
              "# Or force uninstall: choco uninstall " \o toolName \o " --force" >>
      [] installMethod = "apt" ->
           << "sudo apt remove " \o toolName,
              "# Or purge (remove config): sudo apt purge " \o toolName >>
      [] installMethod = "npm" ->
           << "npm uninstall -g " \o toolName >>
      [] installMethod = "pip" ->
           << "pip uninstall " \o toolName,
              "# Or: pip3 uninstall " \o toolName >>
      [] OTHER ->                                    \* case 'manual': default:
           IF Truthy(toolPath)
           THEN IF isWindows
                THEN << "# Manual removal required",
                        "# Delete file: " \o toolPath,
                        "# Or check Programs and Features in Control Panel" >>
                ELSE << "# Manual removal required",
                        "sudo rm " \o toolPath,
                        "# Or check if installed via system package manager" >>
           ELSE << "# Unable to determine uninstall method",
                   "# Please check your system's package manager" >>

(***************************************************************************)
(* Calls of the synchronous functions and of isExecutable on one entry     *)
(***************************************************************************)

EmptyFs == [d \in {} |-> NoDir]
NoStat == [f \in {} |-> StatError]

\* the outcomes of fs.stat: an error, a directory, regular files by mode
StatOutcomes ==
    {StatError, [err |-> FALSE, isFile |-> FALSE, mode |-> 16877]}
    \cup {[err |-> FALSE, isFile |-> TRUE, mode |-> m] :
             m \in {33188, 33261, 32832, 32776, 32769, 33206}}

ExecFileInputs ==
    {"/a/tool.txt", "/a/tool.EXE", "/a/run.ps1", "/a/tool", "/a/.exe", "/a/x.Com"}

ToolPathInputs ==
    {""} \cup
    {a \o b \o c :
        a \in {"/opt/homebrew", "/usr/bin", "/usr/local", "C:\\ProgramData\\Chocolatey",
               "/home/u/.NPM", "/Users/u/Library/Python"},
        b \in {"", "/lib/node_modules", "/Homebrew/lib/node_modules", "/Cellar",
               "/site-packages", "/choco"},
        c \in {"/bin/foo", "/foo.exe", "/pip3"}}

InstallMethods == {"homebrew", "chocolatey", "apt", "npm", "pip", "manual"}
ToolNameInputs == {"foo", "Claude-Code", "python3.11"}
KnownPathInputs == {"", "/usr/local/bin/foo", "C:\\Tools\\foo.exe"}

InitPure ==
    /\ platform \in Platforms
    /\ pathEnv = ""
    /\ dirs = EmptyFs
    /\ \E f \in ExecFileInputs, o \in StatOutcomes : stat = (f :> o)
    /\ op = "" /\ pc = "idle" /\ args = <<>>
    /\ tasks = <<>> /\ acc = <<>> /\ ret = None /\ prev = None

Returned(name, a, r) ==
    /\ pc = "idle"
    /\ op' = name /\ args' = a /\ ret' = r /\ pc' = "done"
    /\ UNCHANGED <<platform, pathEnv, dirs, stat, tasks, acc, prev>>

identifyInstallMethodCall ==
    \E toolPath \in ToolPathInputs :
        Returned("identifyInstallMethod", <<toolPath>>, identifyInstallMethod(toolPath))

generateUninstallInstructionsCall ==
    \E toolName \in ToolNameInputs, installMethod \in InstallMethods \cup {"unknown"},
       toolPath \in KnownPathInputs :
        Returned("generateUninstallInstructions", <<toolName, installMethod, toolPath>>,
                 generateUninstallInstructions(toolName, installMethod, toolPath))

isExecutableCall ==
    \E filePath \in DOMAIN stat \cup {"/a/absent"} :
        Returned("isExecutable", <<filePath>>, isExecutable(filePath))

NextPure ==
    \/ identifyInstallMethodCall
    \/ generateUninstallInstructionsCall
    \/ isExecutableCall

SpecPure == InitPure /\ [][NextPure]_vars

Done(name) == op = name /\ pc = "done"

(***************************************************************************)
(* C2                                                                      *)
(***************************************************************************)

RuleOrder == <<"homebrew", "chocolatey", "apt", "npm", "pip">>

RuleHolds(tag, lowerPath) ==
    CASE tag = "homebrew"   -> \E w \in {"/opt/homebrew", "/usr/local/cellar", "homebrew"} :
                                   includes(lowerPath, w)
      [] tag = "chocolatey" -> \E w \in {"chocolatey", "choco"} : includes(lowerPath, w)
      [] tag = "apt"        -> includes(lowerPath, "/usr/bin") /\ platform = "linux"
      [] tag = "npm"        -> \E w \in {"node_modules", "npm"} : includes(lowerPath, w)
      [] tag = "pip"        -> \E w \in {"site-packages", "pip", "python"} :
                                   includes(lowerPath, w)

FirstRule(lowerPath) ==
    LET holding == {i \in 1..Len(RuleOrder) : RuleHolds(RuleOrder[i], lowerPath)}
    IN  IF holding = {} THEN "manual"
        ELSE RuleOrder[CHOOSE i \in holding : \A j \in holding : i <= j]

\* C2: identifyInstallMethod returns the tag of the first rule, in the order
\* homebrew, chocolatey, apt, npm, pip, that holds on the lower-cased path, and
\* manual when none holds or the path is empty; a path holding both homebrew and
\* node_modules is homebrew; off Linux no path is apt.
C2_FirstRuleWins ==
    Done("identifyInstallMethod") =>
        LET toolPath  == args[1]
            lowerPath == toLowerCase(toolPath)
        IN  /\ ret = (IF toolPath = "" THEN "manual" ELSE FirstRule(lowerPath))
            /\ (includes(lowerPath, "homebrew") /\ includes(lowerPath, "node_modules")
                    => ret = "homebrew")
            /\ (platform # "linux" => ret # "apt")

C2_Witness ==
    /\ Done("identifyInstallMethod")
    /\ includes(args[1], "Homebrew") /\ includes(args[1], "node_modules")
    /\ includes(args[1], "/usr/bin")
    /\ platform = "linux"
    /\ ret = "homebrew"

(***************************************************************************)
(* C7                                                                      *)
(***************************************************************************)

ExecuteBits(mode) == {b \in {64, 8, 1} : (mode \div b) % 2 = 1}

\* C7: isExecutable is false on a stat error and on an entry that is no regular
\* file; otherwise, on Windows, true iff the lower-cased extension is one of
\* .exe .cmd .bat .com .ps1 whatever the mode, and on POSIX true iff an
\* owner, group or other execute bit is set whatever the extension.
C7_ExecutabilityPolicy ==
    Done("isExecutable") =>
        LET st == fsStat(args[1])
        IN  /\ ret \in BOOLEAN
            /\ (st.err \/ ~st.isFile => ret = FALSE)
            /\ (~st.err /\ st.isFile /\ platform = "win32" =>
                  (ret <=> toLowerCase(extname(args[1]))
                              \in {".exe", ".cmd", ".bat", ".com", ".ps1"}))
            /\ (~st.err /\ st.isFile /\ platform # "win32" =>
                  (ret <=> ExecuteBits(st.mode) # {}))

C7_Witness ==
    /\ Done("isExecutable")
    /\ platform # "win32"
    /\ args[1] = "/a/tool.txt"
    /\ fsStat(args[1]).isFile /\ fsStat(args[1]).mode = 32769
    /\ ret = TRUE

(***************************************************************************)
(* C8                                                                      *)
(***************************************************************************)

IsComment(line) == startsWith(line, "#")

PrimaryCommand(installMethod, toolName) ==
    CASE installMethod = "homebrew"   -> "brew uninstall " \o toolName
      [] installMethod = "chocolatey" -> "choco uninstall " \o toolName
      [] installMethod = "apt"        -> "sudo apt remove " \o toolName
      [] installMethod = "npm"        -> "npm uninstall -g " \o toolName
      [] installMethod = "pip"        -> "pip uninstall " \o toolName

\* C8: for homebrew, chocolatey, apt, npm and pip the first line is the
\* method's uninstall command on the name, whatever the path; for manual with
\* an empty path every line is a comment and one says the uninstall method
\* cannot be determined; for manual with a path the only command line is
\* "sudo rm <path>", and only on POSIX.
C8_InstructionTable ==
    Done("generateUninstallInstructions") =>
        LET toolName      == args[1]
            installMethod == args[2]
            toolPath      == args[3]
        IN  /\ (installMethod \in InstallMethods \ {"manual"} =>
                  /\ Len(ret) >= 1
                  /\ ret[1] = PrimaryCommand(installMethod, toolName))
            /\ (installMethod = "manual" /\ toolPath = "" =>
                  /\ \A i \in 1..Len(ret) : IsComment(ret[i])
                  /\ \E i \in 1..Len(ret) :
                        IsComment(ret[i]) /\ includes(ret[i], "determine uninstall method"))
            /\ (installMethod = "manual" /\ toolPath # "" =>
                  \A i \in 1..Len(ret) :
                      ~IsComment(ret[i]) =>
                          ret[i] = "sudo rm " \o toolPath /\ platform # "win32")

C8_Witness ==
    /\ Done("generateUninstallInstructions")
    /\ args[2] = "manual" /\ args[3] = "/usr/local/bin/foo"
    /\ platform = "darwin"
    /\ \E i \in 1..Len(ret) : ret[i] = "sudo rm /usr/local/bin/foo"

(***************************************************************************)
(* Promises                                                                *)
(***************************************************************************)

\* the slots of a Promise.all over n promises, none settled yet
Pending == [settled |-> FALSE, value |-> <<>>]
PromiseAll(n) == [i \in 1..n |-> Pending]
AllSettled(slots) == \A i \in 1..Len(slots) : slots[i].settled
Values(slots) == [i \in 1..Len(slots) |-> slots[i].value]

PromiseAllSettleByArrival(slots, i, v) ==
    LET free == {k \in 1..Len(slots) : ~slots[k].settled}
        k    == CHOOSE m \in free : \A j \in free : m <= j
    IN  [slots EXCEPT ![k] = [settled |-> TRUE, value |-> v]]

\* the i-th promise of a Promise.all fulfils with v: the value takes the
\* promise's position, whenever it arrives
PromiseAllSettle(slots, i, v) ==
    [slots EXCEPT ![i] = [settled |-> TRUE, value |-> v]]

(***************************************************************************)
(* scanDirectory (lines 430-475)                                           *)
(***************************************************************************)

\* the call up to its first await (line 436)
scanDirectoryStart(directory) ==
    [directory |-> directory, pc |-> "access", files |-> <<>>, checks |-> <<>>,
     executables |-> <<>>, outOfOrder |-> FALSE]

\* lines 435-439: access rejects, the inner catch returns the empty list
accessFailed(task) == [task EXCEPT !.pc = "done"]

readdirFailedUncaught(task) == [task EXCEPT !.pc = "rejected"]

\* lines 441, 470-474: readdir rejects, the outer catch swallows it
readdirFailed(task) == [task EXCEPT !.pc = "done"]

\* lines 441-450: the listing, and one isExecutable promise per file
readdirListed(task) ==
    LET files == readdir(task.directory)
    IN  [task EXCEPT !.pc = "checks", !.files = files,
                     !.checks = PromiseAll(Len(files))]

\* lines 445-449: the check of the i-th file fulfils
checkValue(task, i) ==
    LET file     == task.files[i]
        filePath == join(task.directory, file)
    IN  [file |-> file, filePath |-> filePath, isExec |-> isExecutable(filePath)]

\* lines 455-461: the name of an executable
executableName(file) ==
    IF isWindows
    THEN LET ext == toLowerCase(extname(file))
         IN  IF ext \in ExecutableExtensions THEN basename(file, ext) ELSE file
    ELSE file

\* lines 452-469: the loop over the checks
RECURSIVE collectExecutables(_, _)
collectExecutables(directory, checks) ==
    IF checks = <<>> THEN <<>>
    ELSE LET c == Head(checks)
         IN  (IF c.isExec
              THEN << [name      |-> toLowerCase(executableName(c.file)),
                       path      |-> normalizePath(c.filePath),
                       directory |-> normalizePath(directory)] >>
              ELSE <<>>)
             \o collectExecutables(directory, Tail(checks))

(***************************************************************************)
(* scanAllPathDirectories (lines 483-505)                                  *)
(***************************************************************************)

keyOfNameOnly(exec) == exec.name

\* line 496
keyOf(exec) == exec.name \o ":" \o exec.path

\* lines 493-502
RECURSIVE mergeLoop(_, _, _)
mergeLoop(results, seen, allExecutables) ==
    IF results = <<>> THEN [seen |-> seen, allExecutables |-> allExecutables]
    ELSE IF Head(results) = <<>> THEN mergeLoop(Tail(results), seen, allExecutables)
    ELSE LET exec == Head(Head(results))
             rest == <<Tail(Head(results))>> \o Tail(results)
         IN  IF keyOf(exec) \notin seen
             THEN mergeLoop(rest, seen \cup {keyOf(exec)}, Append(allExecutables, exec))
             ELSE mergeLoop(rest, seen, allExecutables)

\* lines 484-491: the accumulators, and one scanDirectory promise per directory
scanAllStart(pathDirs) ==
    [seen |-> {}, allExecutables |-> <<>>, results |-> PromiseAll(Len(pathDirs)),
     outOfOrder |-> FALSE]

onDirectoryScannedMerging(a, t, executables) ==
    LET merged == mergeLoop(<<executables>>, a.seen, a.allExecutables)
    IN  [a EXCEPT !.results = PromiseAllSettle(@, t, <<>>),
                  !.seen = merged.seen, !.allExecutables = merged.allExecutables]

\* line 489: the t-th scanDirectory promise fulfils
onDirectoryScanned(a, t, executables) ==
    [a EXCEPT !.results = PromiseAllSettle(@, t, executables)]

(***************************************************************************)
(* The scans as processes                                                  *)
(***************************************************************************)

MaxFiles == 2

\* the sequences of at most MaxFiles distinct names of a pool
Listings(pool) ==
    {<<>>} \cup
    UNION {{l \in [1..n -> pool] : \A i, j \in 1..n : i # j => l[i] # l[j]} :
              n \in 1..MaxFiles}

Executable755 == [err |-> FALSE, isFile |-> TRUE, mode |-> 33261]
ExecutableOther == [err |-> FALSE, isFile |-> TRUE, mode |-> 32769]
Plain644 == [err |-> FALSE, isFile |-> TRUE, mode |-> 33188]
Directory755 == [err |-> FALSE, isFile |-> FALSE, mode |-> 16877]

\* what fs.stat answers for an entry of the given name
StatByName(file) ==
    CASE file \in {"foo", "foo.exe", "foo.1"} -> Executable755
      [] file \in {"Foo", "FOO.CMD"}          -> ExecutableOther
      [] file \in {"readme", "foo.txt"}       -> Plain644
      [] file \in {"sub"}                     -> Directory755
      [] OTHER                                -> StatError

DirA == IF isWindows THEN "C:\\bin" ELSE "/a"
DirB == IF isWindows THEN "D:\\t" ELSE "/b"
DirF == IF isWindows THEN "C:\\f" ELSE "/f"
DirNx == IF isWindows THEN "Z:\\nx" ELSE "/nx"

PoolA == IF isWindows THEN {"foo.exe", "FOO.CMD", "foo.txt"} ELSE {"foo", "Foo", "readme"}
ListingsB ==
    IF isWindows
    THEN {<<>>, <<"sub", "foo.exe">>, <<"foo.exe", "dead.exe">>}
    ELSE {<<>>, <<"sub", "foo">>, <<"foo", "dead">>}

PathEnvInputs ==
    IF isWindows
    THEN {"", "C:\\bin;C:/bin/", "Z:\\nx; D:\\t ;;C:\\f"}
    ELSE {"", "/a:/b:/a/", "/nx: /b/../b ::/f"}

\* a filesystem: two listable directories, a path that is no directory, and
\* the entries the listings name
\* the entries of a directory: its path, path.sep and the listed name
RECURSIVE Entries(_, _)
Entries(directory, files) ==
    IF files = <<>> THEN NoStat
    ELSE ((directory \o sep \o Head(files)) :> StatByName(Head(files)))
         @@ Entries(directory, Tail(files))

Filesystem(listA, listB) ==
    /\ dirs = (DirA :> [state |-> "listable", files |-> listA]) @@
              (DirB :> [state |-> "listable", files |-> listB]) @@
              (DirF :> [state |-> "unlistable", files |-> <<>>])
    /\ stat = Entries(DirA, listA) @@ Entries(DirB, listB)

InitScan ==
    /\ platform \in {"linux", "win32"}
    /\ pathEnv \in PathEnvInputs
    /\ \E listA \in Listings(PoolA), listB \in ListingsB : Filesystem(listA, listB)
    /\ op = "" /\ pc = "idle" /\ args = <<>>
    /\ tasks = <<>> /\ acc = <<>> /\ ret = <<>> /\ prev = <<>>

Environment == <<platform, pathEnv, dirs, stat>>

\* scanDirectory(directory) is called on its own
scanDirectoryCall ==
    /\ pc = "idle"
    /\ \E directory \in {DirA, DirB, DirF, DirNx} :
          /\ op' = "scanDirectory" /\ args' = <<directory>>
          /\ tasks' = <<scanDirectoryStart(directory)>>
    /\ pc' = "running"
    /\ UNCHANGED <<Environment, acc, ret, prev>>

\* scanAllPathDirectories() is called, for the first time or again
scanAllPathDirectoriesCall ==
    /\ \/ pc = "idle" /\ prev' = prev
       \/ /\ pc = "done" /\ op = "scanAllPathDirectories" /\ prev = <<>>
          /\ prev' = Append(prev, ret)
    /\ LET pathDirs == parsePath
       IN  /\ tasks' = [t \in 1..Len(pathDirs) |-> scanDirectoryStart(pathDirs[t])]
           /\ acc' = scanAllStart(pathDirs)
    /\ op' = "scanAllPathDirectories" /\ args' = <<>> /\ pc' = "running"
    /\ UNCHANGED <<Environment, ret>>

\* the t-th scanDirectory promise settles as task
Settled(t, task) ==
    /\ tasks' = [tasks EXCEPT ![t] = task]
    /\ acc' = IF op = "scanAllPathDirectories" /\ task.pc = "done"
              THEN [onDirectoryScanned(acc, t, task.executables) EXCEPT
                       !.outOfOrder = @ \/ \E u \in 1..(t - 1) : tasks[u].pc # "done"]
              ELSE acc

accessSettles(t) ==
    /\ pc = "running" /\ tasks[t].pc = "access"
    /\ IF accessThrows(tasks[t].directory)
       THEN Settled(t, accessFailed(tasks[t]))
       ELSE tasks' = [tasks EXCEPT ![t].pc = "readdir"] /\ acc' = acc
    /\ UNCHANGED <<Environment, op, pc, args, ret, prev>>

readdirSettles(t) ==
    /\ pc = "running" /\ tasks[t].pc = "readdir"
    /\ IF readdirThrows(tasks[t].directory)
       THEN Settled(t, readdirFailed(tasks[t]))
       ELSE tasks' = [tasks EXCEPT ![t] = readdirListed(@)] /\ acc' = acc
    /\ UNCHANGED <<Environment, op, pc, args, ret, prev>>

\* the isExecutable promise of the i-th file of task t settles
checkSettles(t, i) ==
    /\ pc = "running" /\ tasks[t].pc = "checks"
    /\ i \in 1..Len(tasks[t].files)
    /\ ~tasks[t].checks[i].settled
    /\ \E earlier \in BOOLEAN :
          /\ earlier = (\E j \in 1..(i - 1) : ~tasks[t].checks[j].settled)
          /\ tasks' = [tasks EXCEPT
                ![t].checks = PromiseAllSettle(@, i, checkValue(tasks[t], i)),
                ![t].outOfOrder = @ \/ earlier]
    /\ UNCHANGED <<Environment, op, pc, args, acc, ret, prev>>

\* every check of task t has settled: the loop of lines 452-469 runs
checksJoin(t) ==
    /\ pc = "running" /\ tasks[t].pc = "checks"
    /\ AllSettled(tasks[t].checks)
    /\ Settled(t, [tasks[t] EXCEPT
          !.pc = "done",
          !.executables = collectExecutables(tasks[t].directory, Values(tasks[t].checks))])
    /\ UNCHANGED <<Environment, op, pc, args, ret, prev>>

\* the awaited promise of the running call settles: scanDirectory returns its
\* list; scanAllPathDirectories merges the results (lines 493-504), or rejects
\* when one of its promises rejected
callReturns ==
    /\ pc = "running"
    /\ op \in {"scanDirectory", "scanAllPathDirectories"}
    /\ \/ /\ \E t \in 1..Len(tasks) : tasks[t].pc = "rejected"
          /\ pc' = "threw" /\ UNCHANGED <<acc, ret>>
       \/ /\ \A t \in 1..Len(tasks) : tasks[t].pc = "done"
          /\ pc' = "done"
          /\ IF op = "scanDirectory"
             THEN ret' = tasks[1].executables /\ acc' = acc
             ELSE LET merged == mergeLoop(Values(acc.results), acc.seen, acc.allExecutables)
                  IN  /\ acc' = [acc EXCEPT !.seen = merged.seen,
                                            !.allExecutables = merged.allExecutables]
                      /\ ret' = merged.allExecutables
    /\ UNCHANGED <<Environment, op, args, tasks, prev>>

NextScan ==
    \/ scanDirectoryCall
    \/ scanAllPathDirectoriesCall
    \/ \E t \in 1..Len(tasks) : accessSettles(t)
    \/ \E t \in 1..Len(tasks) : readdirSettles(t)
    \/ \E t \in 1..Len(tasks) : \E i \in 1..MaxFiles : checkSettles(t, i)
    \/ \E t \in 1..Len(tasks) : checksJoin(t)
    \/ callReturns

SpecScan == InitScan /\ [][NextScan]_vars

(***************************************************************************)
(* What the filesystem holds, read off without any scheduling              *)
(***************************************************************************)

Scanning == op \in {"scanDirectory", "scanAllPathDirectories"}

Inaccessible(directory) == accessThrows(directory) \/ readdirThrows(directory)

\* the names of the executables of a directory, in listing order
ExecutableFiles(directory) ==
    LET Runnable(file) == isExecutable(join(directory, file))
    IN  IF Inaccessible(directory) THEN <<>>
        ELSE SelectSeq(readdir(directory), Runnable)

\* every listed entry is an entry of the filesystem, under its joined path
FsWellFormed ==
    \A d \in DOMAIN dirs :
        \A i \in 1..Len(dirs[d].files) : join(d, dirs[d].files[i]) \in DOMAIN stat

(***************************************************************************)
(* C3                                                                      *)
(***************************************************************************)

Holds(list, exec) == \E i \in 1..Len(list) : list[i] = exec

\* C3: the list scanAllPathDirectories returns has no two records with the
\* same (name, path), also when a directory is listed twice; and two
\* executables of the same name at different paths, found in different
\* search-path directories, are both in it.
C3_KeysUniqueAndBothKept ==
    Done("scanAllPathDirectories") =>
        /\ \A i, j \in 1..Len(ret) :
              i # j => ~(ret[i].name = ret[j].name /\ ret[i].path = ret[j].path)
        /\ \A t, u \in 1..Len(tasks) :
              tasks[t].directory # tasks[u].directory =>
                \A i \in 1..Len(tasks[t].executables), j \in 1..Len(tasks[u].executables) :
                    LET a == tasks[t].executables[i]
                        b == tasks[u].executables[j]
                    IN  a.name = b.name /\ a.path # b.path =>
                            Holds(ret, a) /\ Holds(ret, b)

C3_Witness ==
    /\ Done("scanAllPathDirectories")
    /\ \E t, u \in 1..Len(tasks) :
          /\ t # u /\ tasks[t].directory = tasks[u].directory
          /\ tasks[t].executables # <<>>
    /\ \E i, j \in 1..Len(ret) :
          /\ ret[i].name = ret[j].name /\ ret[i].path # ret[j].path
          /\ ret[i].directory # ret[j].directory

(***************************************************************************)
(* C6                                                                      *)
(***************************************************************************)

\* C6: a directory that is missing or cannot be listed makes scanDirectory
\* return the empty list and never reject; scanAllPathDirectories still
\* returns every executable of the other search-path directories, and the
\* empty list when no directory of the search path can be read.
C6_UnreadableDirectorySkipped ==
    /\ pc # "threw"
    /\ Scanning =>
          \A t \in 1..Len(tasks) :
              /\ tasks[t].pc # "rejected"
              /\ (tasks[t].pc = "done" /\ Inaccessible(tasks[t].directory)
                      => tasks[t].executables = <<>>)
    /\ (Done("scanDirectory") /\ Inaccessible(args[1]) => ret = <<>>)
    /\ Done("scanAllPathDirectories") =>
          LET pathDirs == parsePath
          IN  /\ \A t \in 1..Len(pathDirs) :
                    LET files == ExecutableFiles(pathDirs[t])
                    IN  \A k \in 1..Len(files) :
                            \E i \in 1..Len(ret) :
                                /\ ret[i].path = normalizePath(join(pathDirs[t], files[k]))
                                /\ ret[i].directory = pathDirs[t]
              /\ ((\A t \in 1..Len(pathDirs) : Inaccessible(pathDirs[t])) => ret = <<>>)

C6_Witness ==
    /\ Done("scanAllPathDirectories")
    /\ \E t \in 1..Len(tasks) : accessThrows(tasks[t].directory)
    /\ \E t \in 1..Len(tasks) :
          ~accessThrows(tasks[t].directory) /\ readdirThrows(tasks[t].directory)
    /\ ret # <<>>

(***************************************************************************)
(* C9                                                                      *)
(***************************************************************************)

\* C9: the list of a finished scanDirectory holds the directory's executables
\* in listing order, in whatever order the executability checks settled.
C9_ListingOrderKept ==
    Scanning =>
        \A t \in 1..Len(tasks) :
            tasks[t].pc = "done" =>
                LET directory == tasks[t].directory
                    files     == ExecutableFiles(directory)
                    found     == tasks[t].executables
                IN  /\ Len(found) = Len(files)
                    /\ \A k \in 1..Len(found) :
                          found[k].path = normalizePath(join(directory, files[k]))

C9_Witness ==
    /\ Scanning
    /\ \E t \in 1..Len(tasks) :
          /\ tasks[t].pc = "done"
          /\ tasks[t].outOfOrder
          /\ Len(tasks[t].executables) >= 2

(***************************************************************************)
(* C10                                                                     *)
(***************************************************************************)

\* the records of a directory's executables, in listing order
RECURSIVE RecordsOf(_, _)
RecordsOf(directory, files) ==
    IF files = <<>> THEN <<>>
    ELSE << [name      |-> toLowerCase(executableName(Head(files))),
             path      |-> normalizePath(join(directory, Head(files))),
             directory |-> normalizePath(directory)] >>
         \o RecordsOf(directory, Tail(files))

\* the records of all search-path directories, in search-path order
RECURSIVE InPathOrder(_)
InPathOrder(pathDirs) ==
    IF pathDirs = <<>> THEN <<>>
    ELSE RecordsOf(Head(pathDirs), ExecutableFiles(Head(pathDirs)))
         \o InPathOrder(Tail(pathDirs))

\* list without the records whose (name, path) an earlier record has
FirstOccurrences(list) ==
    LET Same(i, j) == list[i].name = list[j].name /\ list[i].path = list[j].path
        kept == {i \in 1..Len(list) : \A j \in 1..(i - 1) : ~Same(i, j)}
        Rank(i) == Cardinality({j \in kept : j <= i})
    IN  [k \in 1..Cardinality(kept) |-> list[CHOOSE i \in kept : Rank(i) = k]]

Pairs(list) == {<<list[i].name, list[i].path>> : i \in 1..Len(list)}

\* C10: the seen-set and the result list stay untouched while scans are
\* running; the result is the search-path-order merge in which the earliest
\* directory's record of a key is kept, whatever the order of completion; and
\* a second run on the same filesystem gives the same (name, path) pairs.
C10_CompletionOrderIrrelevant ==
    /\ (op = "scanAllPathDirectories" /\ pc = "running" =>
            acc.seen = {} /\ acc.allExecutables = <<>>)
    /\ Done("scanAllPathDirectories") =>
            /\ ret = FirstOccurrences(InPathOrder(parsePath))
            /\ (prev # <<>> => Pairs(ret) = Pairs(prev[1]))

C10_Witness ==
    /\ Done("scanAllPathDirectories")
    /\ prev # <<>>
    /\ acc.outOfOrder
    /\ Len(ret) >= 2
    /\ Len(InPathOrder(parsePath)) > Len(ret)

(***************************************************************************)
(* findAllInstallations (lines 663-715)                                    *)
(***************************************************************************)

\* what getAllToolPaths(toolName) of ./commandExecutor may answer: zero or
\* more paths, of entries or not, canonical or not, possibly repeated
ToolPathsInputs(toolName) ==
    LET hit   == DirA \o sep \o toolName
        twin  == DirA \o sep \o sep \o toolName
        other == DirB \o sep \o toolName
        gone  == DirNx \o sep \o toolName
    IN  {<<>>, <<hit>>, <<gone>>, <<hit, hit>>, <<twin, hit>>, <<other, hit>>}

\* lines 688-690
baseNameOf(file) ==
    IF isWindows THEN toLowerCase(basename(file, extname(file))) ELSE toLowerCase(file)

\* line 692
matches(file, toolName) == baseNameOf(file) = toLowerCase(toolName)

\* the index of the first file from position k on that matches; past the end
\* of files when none does (the loop of line 687 up to its next await)
nextMatch(files, k, toolName) ==
    LET hits == {i \in k..Len(files) : matches(files[i], toolName)}
    IN  IF hits = {} THEN Len(files) + 1
        ELSE CHOOSE i \in hits : \A j \in hits : i <= j

\* the sweep of one directory up to its first await (line 679)
sweepStart(directory) ==
    [directory |-> directory, pc |-> "access", files |-> <<>>, next |-> 1,
     foundPaths |-> <<>>]

\* lines 684-687: the listing; the loop runs to the first matching file
sweepListed(task, toolName) ==
    LET files == readdir(task.directory)
        k     == nextMatch(files, 1, toolName)
    IN  [task EXCEPT !.files = files, !.next = k,
                     !.pc = IF k > Len(files) THEN "done" ELSE "check"]

acceptsUnchecked(paths, fullPath, isExec) == ~arrayIncludes(paths, fullPath)

\* line 695
accepts(paths, fullPath, isExec) == ~arrayIncludes(paths, fullPath) /\ isExec

\* lines 693-697, and the loop on to the next matching file
sweepChecked(task, paths, toolName) ==
    LET file     == task.files[task.next]
        fullPath == normalizePath(join(task.directory, file))
        isExec   == isExecutable(join(task.directory, file))
        k        == nextMatch(task.files, task.next + 1, toolName)
    IN  [task EXCEPT
            !.foundPaths = IF accepts(paths, fullPath, isExec)
                           THEN Append(@, fullPath) ELSE @,
            !.next = k,
            !.pc = IF k > Len(task.files) THEN "done" ELSE "check"]

\* lines 710-712
RECURSIVE flatten(_)
flatten(results) ==
    IF results = <<>> THEN <<>> ELSE Head(results) \o flatten(Tail(results))

withoutSet(paths) == paths

\* line 714: [...new Set(paths)]
RECURSIVE uniquePaths(_)
uniquePaths(paths) ==
    IF paths = <<>> THEN <<>>
    ELSE LET init == uniquePaths(SubSeq(paths, 1, Len(paths) - 1))
             last == paths[Len(paths)]
         IN  IF arrayIncludes(init, last) THEN init ELSE Append(init, last)

FindPoolA ==
    IF isWindows THEN {"foo.exe", "FOO.CMD", "foo.txt"} ELSE {"foo", "Foo", "foo.1"}

FindListingsB ==
    IF isWindows THEN {<<"dead.exe", "foo.exe">>} ELSE {<<"sub", "foo">>}

FindPathEnvInputs ==
    IF isWindows THEN {"C:\\bin;C:/bin/;Z:\\nx"} ELSE {"/a:/f:/b:/a/"}

FindToolNames == {"foo", "FOO", "foo.1"}

InitFind ==
    /\ platform \in {"linux", "win32"}
    /\ pathEnv \in FindPathEnvInputs
    /\ \E listA \in Listings(FindPoolA), listB \in FindListingsB : Filesystem(listA, listB)
    /\ op = "" /\ pc = "idle" /\ args = <<>>
    /\ tasks = <<>> /\ acc = <<>> /\ ret = <<>> /\ prev = <<>>

\* lines 663-667: the call up to its first await
findAllInstallationsCall ==
    /\ pc = "idle"
    /\ \E toolName \in FindToolNames : args' = <<toolName>>
    /\ op' = "findAllInstallations" /\ pc' = "lookup"
    /\ acc' = [paths |-> <<>>, pathResults |-> <<>>, results |-> <<>>]
    /\ UNCHANGED <<Environment, tasks, ret, prev>>

\* lines 667-675: getAllToolPaths answers; one sweep per directory starts
findLookupSettles ==
    /\ op = "findAllInstallations" /\ pc = "lookup"
    /\ \E pathResults \in ToolPathsInputs(args[1]) :
          LET pathDirs == parsePath
          IN  /\ acc' = [paths       |-> acc.paths \o pathResults,
                         pathResults |-> pathResults,
                         results     |-> PromiseAll(Len(pathDirs))]
              /\ tasks' = [t \in 1..Len(pathDirs) |-> sweepStart(pathDirs[t])]
    /\ pc' = "running"
    /\ UNCHANGED <<Environment, op, args, ret, prev>>

\* the t-th sweep settles as task
Swept(t, task) ==
    /\ tasks' = [tasks EXCEPT ![t] = task]
    /\ acc' = IF task.pc = "done"
              THEN [acc EXCEPT !.results = PromiseAllSettle(@, t, task.foundPaths)]
              ELSE acc

Sweeping == op = "findAllInstallations" /\ pc = "running"

sweepAccessSettles(t) ==
    /\ Sweeping /\ tasks[t].pc = "access"
    /\ IF accessThrows(tasks[t].directory)
       THEN Swept(t, [tasks[t] EXCEPT !.pc = "done"])
       ELSE Swept(t, [tasks[t] EXCEPT !.pc = "readdir"])
    /\ UNCHANGED <<Environment, op, pc, args, ret, prev>>

sweepReaddirSettles(t) ==
    /\ Sweeping /\ tasks[t].pc = "readdir"
    /\ IF readdirThrows(tasks[t].directory)
       THEN Swept(t, [tasks[t] EXCEPT !.pc = "done"])
       ELSE Swept(t, sweepListed(tasks[t], args[1]))
    /\ UNCHANGED <<Environment, op, pc, args, ret, prev>>

sweepCheckSettles(t) ==
    /\ Sweeping /\ tasks[t].pc = "check"
    /\ Swept(t, sweepChecked(tasks[t], acc.paths, args[1]))
    /\ UNCHANGED <<Environment, op, pc, args, ret, prev>>

\* lines 709-714
findReturns ==
    /\ Sweeping
    /\ AllSettled(acc.results)
    /\ LET paths == acc.paths \o flatten(Values(acc.results))
       IN  /\ acc' = [acc EXCEPT !.paths = paths]
           /\ ret' = uniquePaths(paths)
    /\ pc' = "done"
    /\ UNCHANGED <<Environment, op, args, tasks, prev>>

NextFind ==
    \/ findAllInstallationsCall
    \/ findLookupSettles
    \/ \E t \in 1..Len(tasks) : sweepAccessSettles(t)
    \/ \E t \in 1..Len(tasks) : sweepReaddirSettles(t)
    \/ \E t \in 1..Len(tasks) : sweepCheckSettles(t)
    \/ findReturns

SpecFind == InitFind /\ [][NextFind]_vars

(***************************************************************************)
(* C5                                                                      *)
(***************************************************************************)

\* a file name without its extension
StripExtension(file) == SubSeq(file, 1, Len(file) - Len(extname(file)))

\* path is the normalized path of an executable entry of a search-path
\* directory whose name, as Named gives it, is the lower-cased tool name
SweptEntry(path, toolName, Named(_)) ==
    \E t \in 1..Len(parsePath) :
        LET directory == parsePath[t]
        IN  /\ ~Inaccessible(directory)
            /\ \E i \in 1..Len(readdir(directory)) :
                  LET file == readdir(directory)[i]
                  IN  /\ path = normalizePath(join(directory, file))
                      /\ toLowerCase(Named(file)) = toLowerCase(toolName)
                      /\ isExecutable(join(directory, file))

SetResult(Named(_)) ==
    Done("findAllInstallations") =>
        /\ \A i, j \in 1..Len(ret) : i # j => ret[i] # ret[j]
        /\ \A k \in 1..Len(acc.pathResults) : arrayIncludes(ret, acc.pathResults[k])
        /\ \A i \in 1..Len(ret) :
              \/ arrayIncludes(acc.pathResults, ret[i])
              \/ SweptEntry(ret[i], args[1], Named)

\* the name of an entry the sweep compares: without its extension on Windows,
\* the whole file name elsewhere
ComparedName(file) == IF platform = "win32" THEN StripExtension(file) ELSE file

\* the result has no repeated path and holds every path of the fast lookup,
\* and every other element is the normalized path of an executable
\* search-path entry whose name with its extension stripped, lower-cased,
\* is the lower-cased tool name, on every platform
C5_AsStated == SetResult(StripExtension)

\* C5: findAllInstallations returns a list with no repeated path that holds
\* every path of the fast lookup, and every other element is the normalized
\* path of an executable search-path entry whose lower-cased name (without
\* its extension on Windows, whole on the other platforms) is the
\* lower-cased tool name; for a directory listed several times and for
\* every completion order of the sweeps.
C5_SetOfLookupAndSweptEntries == SetResult(ComparedName)

C5_Witness ==
    /\ Done("findAllInstallations")
    /\ acc.pathResults # <<>>
    /\ \E i \in 1..Len(ret) : ~arrayIncludes(acc.pathResults, ret[i])
    /\ \E t, u \in 1..Len(tasks) :
          /\ t # u /\ tasks[t].directory = tasks[u].directory
          /\ tasks[t].foundPaths # <<>> /\ tasks[u].foundPaths # <<>>

(***************************************************************************)
(* getVersionOutput (lines 386-394), getExtendedToolInfo (lines 624-654)   *)
(***************************************************************************)

\* an optional string that is absent (undefined) is None
Present(s) == s # None /\ Len(s) > 0

getVersionOutputStderrFirst(result) ==
    IF Present(result.stderr) /\ Present(trim(result.stderr)) THEN result.stderr
    ELSE IF Present(result.stdout) /\ Present(trim(result.stdout)) THEN result.stdout
    ELSE ""

getVersionOutput(result) ==
    IF Present(result.stdout) /\ Present(trim(result.stdout)) THEN result.stdout
    ELSE IF Present(result.stderr) /\ Present(trim(result.stderr)) THEN result.stderr
    ELSE ""

\* parseVersion(text) of ./detectionEngine: the version the text names, if any
parseVersion(text) ==
    [version |-> IF includes(text, "1.2.3") THEN "1.2.3"
                 ELSE IF includes(text, "0.9.0") THEN "0.9.0"
                 ELSE None]

isInstalledByPathOnly(allPaths, versionResult) == Len(allPaths) > 0

\* line 648
isInstalled(allPaths, versionResult) == Len(allPaths) > 0 /\ versionResult.success

toolInfoLastPath(toolName, allPaths, versionResult) ==
    LET version       == parseVersion(getVersionOutput(versionResult)).version
        primaryPath   == IF Len(allPaths) > 0 THEN allPaths[Len(allPaths)] ELSE None
        pathOrEmpty   == IF primaryPath = None THEN "" ELSE primaryPath
        installMethod == identifyInstallMethod(pathOrEmpty)
    IN  [name                  |-> toolName,
         displayName           |-> toolName,
         version               |-> version,
         path                  |-> primaryPath,
         isInstalled           |-> isInstalled(allPaths, versionResult),
         installMethod         |-> installMethod,
         category              |-> "tool",
         allPaths              |-> allPaths,
         uninstallInstructions |->
             generateUninstallInstructions(toolName, installMethod, pathOrEmpty)]

\* lines 630-653, after both awaits
toolInfo(toolName, allPaths, versionResult) ==
    LET version       == parseVersion(getVersionOutput(versionResult)).version
        primaryPath   == IF Len(allPaths) > 0 THEN allPaths[1] ELSE None
        pathOrEmpty   == IF primaryPath = None THEN "" ELSE primaryPath
        installMethod == identifyInstallMethod(pathOrEmpty)
    IN  [name                  |-> toolName,
         displayName           |-> toolName,
         version               |-> version,
         path                  |-> primaryPath,
         isInstalled           |-> isInstalled(allPaths, versionResult),
         installMethod         |-> installMethod,
         category              |-> "tool",
         allPaths              |-> allPaths,
         uninstallInstructions |->
             generateUninstallInstructions(toolName, installMethod, pathOrEmpty)]

\* what executeSafe(`${toolName} --version`) of ./commandExecutor may answer
VersionResults ==
    [success : BOOLEAN,
     stdout  : {None, "", " \n", "foo 1.2.3\n"},
     stderr  : {None, "", "foo: command not found", "v0.9.0"}]

\* what getAllToolPaths(toolName) may answer to getExtendedToolInfo
InfoPathsInputs(toolName) ==
    ToolPathsInputs(toolName) \cup
    {<<"/usr/bin/" \o toolName>>,
     <<"/opt/homebrew/bin/" \o toolName, "/usr/bin/" \o toolName>>,
     <<"/usr/lib/node_modules/.bin/" \o toolName>>}

InitInfo ==
    /\ platform \in Platforms
    /\ pathEnv = ""
    /\ dirs = EmptyFs
    /\ stat = NoStat
    /\ op = "" /\ pc = "idle" /\ args = <<>>
    /\ tasks = <<>> /\ acc = <<>> /\ ret = <<>> /\ prev = <<>>

\* lines 624-626: the call up to its first await
getExtendedToolInfoCall ==
    /\ pc = "idle"
    /\ \E toolName \in ToolNameInputs : args' = <<toolName>>
    /\ op' = "getExtendedToolInfo" /\ pc' = "lookup"
    /\ UNCHANGED <<Environment, tasks, acc, ret, prev>>

\* lines 626-629: getAllToolPaths answers, the version probe is started
infoLookupSettles ==
    /\ op = "getExtendedToolInfo" /\ pc = "lookup"
    /\ \E allPaths \in InfoPathsInputs(args[1]) : acc' = [allPaths |-> allPaths]
    /\ pc' = "probe"
    /\ UNCHANGED <<Environment, op, args, tasks, ret, prev>>

\* lines 629-653: executeSafe answers, the record is built and returned
infoProbeSettles ==
    /\ op = "getExtendedToolInfo" /\ pc = "probe"
    /\ \E versionResult \in VersionResults :
          /\ acc' = [allPaths      |-> acc.allPaths,
                     versionResult |-> versionResult,
                     versionOutput |-> getVersionOutput(versionResult)]
          /\ ret' = toolInfo(args[1], acc.allPaths, versionResult)
    /\ pc' = "done"
    /\ UNCHANGED <<Environment, op, args, tasks, prev>>

NextInfo ==
    \/ getExtendedToolInfoCall
    \/ infoLookupSettles
    \/ infoProbeSettles

SpecInfo == InitInfo /\ [][NextInfo]_vars

(***************************************************************************)
(* C1                                                                      *)
(***************************************************************************)

\* C1: the record's isInstalled is true exactly when getAllToolPaths returned
\* a path and the version probe reported success, whether or not a version
\* was parsed.
C1_InstalledIffPathAndProbe ==
    Done("getExtendedToolInfo") =>
        /\ ret.isInstalled = (acc.allPaths # <<>> /\ acc.versionResult.success)
        /\ (acc.allPaths # <<>> /\ ~acc.versionResult.success => ret.isInstalled = FALSE)
        /\ (acc.allPaths = <<>> /\ acc.versionResult.success => ret.isInstalled = FALSE)

C1_Witness ==
    /\ Done("getExtendedToolInfo")
    /\ acc.allPaths # <<>>
    /\ ~acc.versionResult.success
    /\ ret.version = "0.9.0"
    /\ ret.isInstalled = FALSE

(***************************************************************************)
(* C4                                                                      *)
(***************************************************************************)

\* C4: allPaths of the returned record holds no two paths with the same
\* normalized form, whatever list getAllToolPaths returned.
C4_AllPathsDistinct ==
    Done("getExtendedToolInfo") =>
        \A i, j \in 1..Len(ret.allPaths) :
            i # j => normalizePath(ret.allPaths[i]) # normalizePath(ret.allPaths[j])

(***************************************************************************)
(* C11                                                                     *)
(***************************************************************************)

\* the first path getAllToolPaths returned, None when it returned none
PrimaryPath == IF Len(acc.allPaths) > 0 THEN acc.allPaths[1] ELSE None
PrimaryOrEmpty == IF PrimaryPath = None THEN "" ELSE PrimaryPath

\* C11: in the returned record path is allPaths[0], absent when allPaths is
\* empty; installMethod is identifyInstallMethod of that path, manual when
\* there is none; uninstallInstructions is generateUninstallInstructions of
\* the tool name, that method and that path or ""; and no answer of the
\* version probe would have changed any of the three.
C11_PrimaryPathDerivations ==
    Done("getExtendedToolInfo") =>
        /\ ret.allPaths = acc.allPaths
        /\ ret.path = PrimaryPath
        /\ ret.installMethod = identifyInstallMethod(PrimaryOrEmpty)
        /\ (PrimaryPath = None => ret.installMethod = "manual")
        /\ ret.uninstallInstructions =
               generateUninstallInstructions(args[1], ret.installMethod, PrimaryOrEmpty)
        /\ \A versionResult \in VersionResults :
              LET other == toolInfo(args[1], acc.allPaths, versionResult)
              IN  /\ other.path = ret.path
                  /\ other.installMethod = ret.installMethod
                  /\ other.uninstallInstructions = ret.uninstallInstructions

C11_Witness ==
    /\ Done("getExtendedToolInfo")
    /\ Len(acc.allPaths) > 1
    /\ acc.allPaths[1] # acc.allPaths[Len(acc.allPaths)]
    /\ ret.installMethod = "homebrew"
    /\ ~acc.versionResult.success
    /\ ret.path = acc.allPaths[1]

(***************************************************************************)
(* C12                                                                     *)
(***************************************************************************)

\* an output stream that is there and has at least one character
HasText(s) == s # None /\ Len(s) > 0

\* an output stream that is there and has a character that is not white space
HasNonBlank(s) ==
    s # None /\ \E i \in 1..Len(s) : SubSeq(s, i, i) \notin WhiteSpace

\* the text given to parseVersion is stdout when stdout is usable, else stderr
\* when stderr is usable, else ""; a failed probe without usable output ends
\* the call with "" and no version
PreferStdout(Usable(_)) ==
    Done("getExtendedToolInfo") =>
        LET result == acc.versionResult
        IN  /\ ret.version = parseVersion(acc.versionOutput).version
            /\ acc.versionOutput =
                   IF Usable(result.stdout) THEN result.stdout
                   ELSE IF Usable(result.stderr) THEN result.stderr
                   ELSE ""
            /\ (Usable(result.stdout) /\ result.stderr # result.stdout
                    => acc.versionOutput # result.stderr)
            /\ (~result.success /\ ~Usable(result.stdout) /\ ~Usable(result.stderr)
                    => acc.versionOutput = "" /\ ret.version = None)

\* the rule with "usable" read as non-empty: stdout of white space only would
\* be the text given to the parser
C12_NonEmptyStdoutPreferred == PreferStdout(HasText)

\* C12: the text handed to parseVersion is the probe's stdout when stdout has
\* a character that is not white space, else the probe's stderr when stderr
\* has one, else the empty string; stderr is never used when stdout has such
\* a character, and a failed probe with no output gives the empty string and
\* the call still returns.
C12_NonBlankStdoutPreferred == PreferStdout(HasNonBlank)

C12_Witness ==
    /\ Done("getExtendedToolInfo")
    /\ HasNonBlank(acc.versionResult.stdout)
    /\ HasNonBlank(acc.versionResult.stderr)
    /\ acc.versionOutput = acc.versionResult.stdout
    /\ ret.version = "1.2.3"

(***************************************************************************)
(* AICLIView: handleInstall, handleUpdate, handleUninstall (lines 51-131)   *)
(*                                                                         *)
(* tasks holds the runs of the three handlers, acc the component's state.  *)
(* Every setActionLoading passes an updater function, which React applies  *)
(* in call order to the latest state; the updater is applied where it is   *)
(* passed.                                                                 *)
(***************************************************************************)

MaxRuns == 2

Tools == {"codex", "gemini"}
Handlers == {"install", "update", "uninstall"}

\* line 55: useState<Record<string, string>>({}), no key has a value yet
NoActionLoading == [tool \in Tools |-> None]

\* lines 77, 96, 115: prev => ({ ...prev, [tool.name]: handler })
setLoading(prevState, tool, handler) == [prevState EXCEPT ![tool] = handler]

resetLoadingFromClosure(prevState, run) == [run.closure EXCEPT ![run.tool] = ""]

\* lines 91, 110, 129: prev => ({ ...prev, [tool.name]: '' })
resetLoading(prevState, run) == [prevState EXCEPT ![run.tool] = ""]

\* window.electronAPI?.aiCli when a handler or loadTools looks at it: there
\* and answering with a promise, there and throwing on the call, or missing
ApiStates == {"ready", "throws", "missing"}

\* lines 57-70: loadTools up to its first await, or to its end when nothing is
\* awaited; state is the component state it starts from
loadTools(state, api) ==
    IF api = "ready"
    THEN [state EXCEPT !.loading = TRUE, !.loads = @ + 1]
    ELSE [state EXCEPT !.loading = FALSE]

\* the state after construction and the mount effect of lines 72-74
InitView ==
    /\ platform = "linux"
    /\ pathEnv = ""
    /\ dirs = EmptyFs
    /\ stat = NoStat
    /\ op = "AICLIView" /\ pc = "mounted" /\ args = <<>>
    /\ tasks = <<>>
    /\ \E api \in ApiStates :
          acc = loadTools([actionLoading |-> NoActionLoading,
                           loading       |-> TRUE,
                           loads         |-> 0], api)
    /\ ret = <<>> /\ prev = <<>>

\* a handler from its call to its first await, or to its end when the API is
\* missing or the call throws (lines 76-80 and 88-92 of handleInstall)
handlerCall(handler) ==
    /\ op = "AICLIView"
    /\ ~acc.loading                           \* line 154: no button while loading
    /\ Len(tasks) < MaxRuns
    /\ \E tool \in Tools, api \in ApiStates :
          /\ acc.actionLoading[tool] # handler    \* lines 259, 268, 282
          /\ LET run == [handler |-> handler,
                         tool    |-> tool,
                         closure |-> acc.actionLoading,
                         pc      |-> IF api = "ready" THEN "awaiting" ELSE "done",
                         outcome |-> IF api = "ready" THEN "pending" ELSE api]
                 started == setLoading(acc.actionLoading, tool, handler)
             IN  /\ tasks' = Append(tasks, run)
                 /\ acc' = [acc EXCEPT !.actionLoading =
                               IF api = "ready" THEN started
                               ELSE resetLoading(started, run)]
    /\ UNCHANGED <<Environment, op, pc, args, ret, prev>>

\* lines 76-93
handleInstall == handlerCall("install")

\* lines 95-112
handleUpdate == handlerCall("update")

\* lines 114-131
handleUninstall == handlerCall("uninstall")

\* the awaited call of lines 80, 99, 118 settles: result.success, a result
\* without success, or a rejection; then the finally block
handlerSettles ==
    /\ op = "AICLIView"
    /\ \E r \in 1..Len(tasks), outcome \in {"success", "failed", "thrown"},
          api \in ApiStates :
          /\ tasks[r].pc = "awaiting"
          /\ outcome # "success" => api = "ready"
          /\ tasks' = [tasks EXCEPT ![r].pc = "done", ![r].outcome = outcome]
          /\ acc' = [(IF outcome = "success" THEN loadTools(acc, api) ELSE acc)
                        EXCEPT !.actionLoading = resetLoading(acc.actionLoading, tasks[r])]
    /\ UNCHANGED <<Environment, op, pc, args, ret, prev>>

\* lines 61-69: detectAll of a loadTools settles either way
loadToolsSettles ==
    /\ op = "AICLIView"
    /\ acc.loads > 0
    /\ acc' = [acc EXCEPT !.loads = @ - 1, !.loading = FALSE]
    /\ UNCHANGED <<Environment, op, pc, args, tasks, ret, prev>>

NextView ==
    \/ handleInstall
    \/ handleUpdate
    \/ handleUninstall
    \/ handlerSettles
    \/ loadToolsSettles

SpecView == InitView /\ [][NextView]_vars

(***************************************************************************)
(* C13                                                                     *)
(***************************************************************************)

\* run r is called or ends in this step
Steps(r) ==
    /\ r \in 1..Len(tasks')
    /\ r > Len(tasks) \/ tasks[r].pc # tasks'[r].pc

Empty(value) == value = None \/ value = ""

\* a step of a run sets its tool's entry to the handler's name when the run
\* goes on and to '' when it has ended, and leaves every other entry as it was
RunEffect ==
    /\ \A r \in 1..Len(tasks') :
          Steps(r) =>
              /\ acc'.actionLoading[tasks'[r].tool] =
                     IF tasks'[r].pc = "done" THEN "" ELSE tasks'[r].handler
              /\ \A other \in Tools \ {tasks'[r].tool} :
                     acc'.actionLoading[other] = acc.actionLoading[other]
    /\ (\A r \in 1..Len(tasks') : ~Steps(r)) => acc'.actionLoading = acc.actionLoading

AllFinished == \A r \in 1..Len(tasks) : tasks[r].pc = "done"

\* C13: every run of handleInstall, handleUpdate or handleUninstall for a tool
\* sets that tool's actionLoading entry to the action's name when it starts
\* and to '' when it ends, on success, on a result without success, on a
\* thrown error and on a missing electronAPI, and changes no other tool's
\* entry; once all runs have finished no tool has a non-empty entry.
C13_LoadingSetAndCleared ==
    /\ [][RunEffect]_vars
    /\ [](AllFinished => \A tool \in Tools : Empty(acc.actionLoading[tool]))

C13_Witness ==
    /\ op = "AICLIView"
    /\ Len(tasks) = 2
    /\ AllFinished
    /\ tasks[1].tool # tasks[2].tool
    /\ tasks[2].closure[tasks[1].tool] = tasks[1].handler
    /\ tasks[1].outcome = "thrown"
    /\ tasks[2].outcome = "failed"
    /\ \A tool \in Tools : acc.actionLoading[tool] = ""

====
